---- MODULE Spec2Model ----
(***************************************************************************)
(* Model of src/src/factorial.rs: the FactorialChip gate ("factorial"),    *)
(* the witness assignment of FactorialChip::calculate, the copy            *)
(* constraints of assign_advice_from_instance / expose_public, the helper  *)
(* factorial(n: u64) and the MockProver run/verify pair that main drives.  *)
(*                                                                         *)
(* The field Fp is represented by the integers modulo FieldModulus; the    *)
(* u64 arithmetic of factorial() keeps its 64-bit width as four 16-bit     *)
(* limbs.  The prover parameter k is taken large enough for the table.     *)
(***************************************************************************)
EXTENDS Integers, Sequences, FiniteSets, TLC

VARIABLES pc, n, instance, col_a, col_b, q0, q1, copies, output, failures,
          helper, tampered

vars == <<pc, n, instance, col_a, col_b, q0, q1, copies, output, failures,
          helper, tampered>>

----------------------------------------------------------------------------
(* Bounds of the model *)

FieldModulus == 367   \* stand-in for the order of Fp
MaxRows == 4          \* largest row count handed to the circuit by Setup
MaxSeed == 6          \* largest seed published in instance row 0 by Setup
MaxArg == 21          \* largest arg tried by main (21! does not fit u64)
MaxOut == 30          \* largest forged expected output tried by AdvSetup

----------------------------------------------------------------------------
(* Field arithmetic (FieldExt: add, sub, mul, one) *)

Field == 0 .. (FieldModulus - 1)

FAdd(x, y) == (x + y) % FieldModulus

FSub(x, y) == ((x - y) + FieldModulus) % FieldModulus

FMul(x, y) == (x * y) % FieldModulus

FOne == 1 % FieldModulus

----------------------------------------------------------------------------
(* u64 arithmetic of factorial(): little-endian limbs *)

LimbBase == 65536

U64FromSmall(x) == <<x, 0, 0, 0>>

\* limbs * k, limb by limb; carry is what does not fit in 64 bits
U64MulCarry(limbs, k) ==
  LET t1 == limbs[1] * k
      t2 == limbs[2] * k + (t1 \div LimbBase)
      t3 == limbs[3] * k + (t2 \div LimbBase)
      t4 == limbs[4] * k + (t3 \div LimbBase)
  IN  [limbs |-> <<t1 % LimbBase, t2 % LimbBase, t3 % LimbBase,
                   t4 % LimbBase>>,
       carry |-> t4 \div LimbBase]

\* Fp::from(u64)
FpFromLimbs(limbs) ==
  LET r4 == limbs[4] % FieldModulus
      r3 == (r4 * LimbBase + limbs[3]) % FieldModulus
      r2 == (r3 * LimbBase + limbs[2]) % FieldModulus
  IN  (r2 * LimbBase + limbs[1]) % FieldModulus

\* (1..n - 1).fold(n, |acc, i| acc * (n - i)) from index i up to hi - 1
RECURSIVE FactorialFold(_, _, _, _)
FactorialFold(arg, i, hi, acc) ==
  IF i >= hi THEN acc
  ELSE LET m == U64MulCarry(acc.limbs, arg - i)
       IN  FactorialFold(arg, i + 1, hi,
                         [limbs |-> m.limbs,
                          overflow |-> acc.overflow \/ m.carry > 0])

\* The outcomes of factorial(arg).  n - 1 underflows for n = 0 and the
\* product overflows u64 for large n: a debug build panics, a release build
\* wraps (for n = 0 the accumulator starts at 0 and stays 0).
factorial(arg) ==
  IF arg = 0
  THEN {[outcome |-> "panic", value |-> 0],
        [outcome |-> "wrapped", value |-> 0]}
  ELSE LET r == FactorialFold(arg, 1, arg - 1,
                              [limbs |-> U64FromSmall(arg),
                               overflow |-> FALSE])
       IN  IF r.overflow
           THEN {[outcome |-> "panic", value |-> 0],
                 [outcome |-> "wrapped", value |-> FpFromLimbs(r.limbs)]}
           ELSE {[outcome |-> "exact", value |-> FpFromLimbs(r.limbs)]}

----------------------------------------------------------------------------
(* FactorialChip::calculate *)

\* value of b at row 0: a - 1
CountdownSeed(a) == FSub(a, FOne)

\* a slip that adds where the recurrence multiplies
NextProductSum(a, b) == FAdd(a, b)

\* value of c: a * b
NextProduct(a, b) == FMul(a, b)

\* a slip that forgets the decrement
NextCountdownStuck(b) == b

\* value of d: b - 1
NextCountdown(b) == FSub(b, FOne)

\* an off-by-one that also enables the final row
EnableRowThroughLast(row, nrows) == row < nrows

\* if row < nrows - 1 { selector.enable(row) }
EnableRow(row, nrows) == row < nrows - 1

\* for row in 1..nrows { ... }; st carries the region and a_cell / b_cell
RECURSIVE CalculateLoop(_, _, _)
CalculateLoop(row, nrows, st) ==
  IF row >= nrows THEN st
  ELSE LET c == NextProduct(st.a[st.a_cell], st.b[st.b_cell])
           d == NextCountdown(st.b[st.b_cell])
       IN  CalculateLoop(row + 1, nrows,
             [a |-> st.a @@ (row :> c),
              b |-> st.b @@ (row :> d),
              sel |-> IF EnableRow(row, nrows) THEN st.sel \cup {row}
                      ELSE st.sel,
              a_cell |-> row,
              b_cell |-> row])

\* The region after calculate(nrows) and the row of the returned a_cell.
calculate(nrows, inst) ==
  CalculateLoop(1, nrows,
    [a |-> (0 :> inst[0]),
     b |-> (0 :> CountdownSeed(inst[0])),
     sel |-> {0},
     a_cell |-> 0,
     b_cell |-> 0])

\* a slip that binds the output to the seed slot
expose_public_seed_slot(cell, row) == [col |-> "a", row |-> cell, inst |-> 0]

\* layouter.constrain_instance(cell, instance, row)
expose_public(cell, row) == [col |-> "a", row |-> cell, inst |-> row]

\* the copy constraint recorded by assign_advice_from_instance(instance, 0, a, 0)
SeedCopy == [col |-> "a", row |-> 0, inst |-> 0]

----------------------------------------------------------------------------
(* MockProver::verify over the gate of FactorialChip::configure *)

RowBound == IF MaxArg > MaxRows THEN MaxArg ELSE MaxRows

Rows == 0 .. RowBound

Column(name) == IF name = "a" THEN col_a ELSE col_b

IsAssigned(name, row) == row \in DOMAIN Column(name)

\* an unassigned cell evaluates to zero
CellValue(name, row) ==
  IF IsAssigned(name, row) THEN Column(name)[row] ELSE 0

Sel(q, row) == IF row \in q THEN FOne ELSE 0

\* s0 * (b - (d + one))
CountdownPoly(row) ==
  FMul(Sel(q0, row),
       FSub(CellValue("b", row), FAdd(CellValue("b", row + 1), FOne)))

\* s1 * (c - (a * b))
ProductPoly(row) ==
  FMul(Sel(q1, row),
       FSub(CellValue("a", row + 1),
            FMul(CellValue("a", row), CellValue("b", row))))

GatePolys(row) == <<CountdownPoly(row), ProductPoly(row)>>

\* cells queried by the gate at a row: a, b at cur and c, d at next
QueriedCells(row) ==
  {<<"a", row>>, <<"b", row>>, <<"a", row + 1>>, <<"b", row + 1>>}

CopyHolds(c) == CellValue(c.col, c.row) = instance[c.inst]

VerifyFailures ==
  UNION {{[kind |-> "CellNotAssigned", row |-> r, at |-> cell[2]] :
            cell \in {c \in QueriedCells(r) : ~IsAssigned(c[1], c[2])}} :
         r \in q0 \cup q1}
  \cup
  UNION {{[kind |-> "ConstraintNotSatisfied", row |-> r, at |-> i] :
            i \in {k \in {1, 2} : GatePolys(r)[k] # 0}} :
         r \in Rows}
  \cup
  {[kind |-> "Permutation", row |-> c.row, at |-> c.inst] :
     c \in {c \in copies : ~CopyHolds(c)}}

----------------------------------------------------------------------------
(* State machine *)

NoHelper == [arg |-> 0, outcome |-> "none", value |-> 0]

Init ==
  /\ pc = "start"
  /\ n = 0
  /\ instance = (0 :> 0) @@ (1 :> 0)
  /\ col_a = <<>>
  /\ col_b = <<>>
  /\ q0 = {}
  /\ q1 = {}
  /\ copies = {}
  /\ output = -1
  /\ failures = {}
  /\ helper = NoHelper
  /\ tampered = {}

\* main: circuit.n = arg, public_inputs = [Fp::from(arg), factorial(arg)]
MainSetup(arg) ==
  /\ pc = "start"
  /\ \E o \in factorial(arg) :
       /\ helper' = [arg |-> arg, outcome |-> o.outcome, value |-> o.value]
       /\ IF o.outcome = "panic"
          THEN /\ pc' = "panicked"
               /\ UNCHANGED <<n, instance>>
          ELSE /\ pc' = "ready"
               /\ n' = arg
               /\ instance' = (0 :> FpFromLimbs(U64FromSmall(arg)))
                              @@ (1 :> o.value)
  /\ UNCHANGED <<col_a, col_b, q0, q1, copies, output, failures, tampered>>

\* a FactorialCircuit { n: nrows } and a public instance [seed, expected]
CircuitSetup(nrows, seed, expected) ==
  /\ pc = "start"
  /\ pc' = "ready"
  /\ n' = nrows
  /\ instance' = (0 :> seed) @@ (1 :> expected)
  /\ UNCHANGED <<col_a, col_b, q0, q1, copies, output, failures, helper,
                 tampered>>

\* FactorialCircuit::synthesize (under MockProver::run)
Synthesize ==
  /\ pc = "ready"
  /\ LET r == calculate(n, instance)
     IN  /\ col_a' = r.a
         /\ col_b' = r.b
         /\ q0' = r.sel
         /\ output' = r.a_cell
         /\ copies' = {SeedCopy, expose_public(r.a_cell, 1)}
  /\ pc' = "synthesized"
  /\ UNCHANGED <<n, instance, q1, failures, helper, tampered>>

\* a prover that puts another value into one assigned advice cell
Tamper(name, row, v) ==
  /\ pc = "synthesized"
  /\ tampered = {}
  /\ IsAssigned(name, row)
  /\ v # Column(name)[row]
  /\ IF name = "a"
     THEN col_a' = [col_a EXCEPT ![row] = v] /\ UNCHANGED col_b
     ELSE col_b' = [col_b EXCEPT ![row] = v] /\ UNCHANGED col_a
  /\ tampered' = {<<name, row>>}
  /\ UNCHANGED <<pc, n, instance, q0, q1, copies, output, failures, helper>>

\* prover.verify()
Verify ==
  /\ pc = "synthesized"
  /\ failures' = VerifyFailures
  /\ pc' = "verified"
  /\ UNCHANGED <<n, instance, col_a, col_b, q0, q1, copies, output, helper,
                 tampered>>

Main == pc = "start" /\ \E arg \in 0 .. MaxArg : MainSetup(arg)

Setup ==
  /\ pc = "start"
  /\ \E nrows \in 0 .. MaxRows, seed \in 0 .. MaxSeed, expected \in Field :
       CircuitSetup(nrows, seed % FieldModulus, expected)

AdvSetup ==
  /\ pc = "start"
  /\ \E nrows \in 0 .. MaxRows, expected \in 0 .. MaxOut :
       CircuitSetup(nrows, nrows % FieldModulus, expected % FieldModulus)

TamperCell ==
  /\ pc = "synthesized"
  /\ tampered = {}
  /\ \E name \in {"a", "b"}, row \in 0 .. MaxRows, v \in Field :
       Tamper(name, row, v)

Next == Setup \/ Main \/ Synthesize \/ Verify

Spec == Init /\ [][Next]_vars

NextAdv == AdvSetup \/ Synthesize \/ TamperCell \/ Verify

SpecAdv == Init /\ [][NextAdv]_vars

----------------------------------------------------------------------------
(* Reference values the properties compare against *)

\* n! in the field, as the ascending product 1 * 2 * ... * k
RECURSIVE FactMod(_)
FactMod(k) == IF k = 0 THEN FOne ELSE FMul(k % FieldModulus, FactMod(k - 1))

\* s * (s - 1) * ... * (s - (k - 1)) in the field
RECURSIVE FallingProduct(_, _)
FallingProduct(s, k) ==
  IF k = 0 THEN FOne
  ELSE FMul(FallingProduct(s, k - 1), FSub(s, (k - 1) % FieldModulus))

Synthesized == pc \in {"synthesized", "verified"}

HonestInstance ==
  /\ instance[0] = n % FieldModulus
  /\ instance[1] = FactMod(n)

\* both recurrence identities of the gate at a row, without the selectors
RecurrenceAt(r) ==
  /\ CellValue("b", r) = FAdd(CellValue("b", r + 1), FOne)
  /\ CellValue("a", r + 1) = FMul(CellValue("a", r), CellValue("b", r))

\* a reported failure names the row of a cell
References(f, row) ==
  IF f.kind = "Permutation" THEN f.row = row
  ELSE row \in {f.row, f.row + 1}

----------------------------------------------------------------------------
(* Properties *)

\* C1: for n >= 2 the table synthesized for nrows = n verifies against the
\* public instance [n, n!]: no failure is reported, the gate polynomials
\* vanish on every enabled row and both copy constraints hold.
C1_HonestTableAccepted ==
  (pc = "verified" /\ n >= 2 /\ HonestInstance) =>
    /\ failures = {}
    /\ \A r \in q0 \cup q1 : GatePolys(r) = <<0, 0>> /\ RecurrenceAt(r)
    /\ copies = {SeedCopy, [col |-> "a", row |-> n - 1, inst |-> 1]}
    /\ \A c \in copies : CopyHolds(c)

C1_Witness ==
  /\ pc = "verified"
  /\ n >= 3
  /\ HonestInstance
  /\ failures = {}

\* C2: for nrows >= 2 the cell returned by calculate is column a at row
\* nrows - 1 and holds seed * (seed - 1) * ... * (seed - (nrows - 1)); with
\* seed = nrows = n it is n!.
C2_ReturnedCellIsCountdownProduct ==
  (Synthesized /\ n >= 2) =>
    /\ output = n - 1
    /\ col_a[output] = FallingProduct(instance[0], n)
    /\ (instance[0] = n % FieldModulus => col_a[output] = FactMod(n))

C2_Witness ==
  /\ pc = "synthesized"
  /\ n >= 3
  /\ instance[0] = n % FieldModulus
  /\ col_a[output] = FactMod(n)
  /\ col_a[output] # 0

\* C3 (as claimed): after the honest assignment for n >= 2 with the matching
\* instance, changing one advice cell makes verify report a failure that
\* references the row of that cell.
C3_EveryTamperedCellReported ==
  (pc = "verified" /\ n >= 2 /\ HonestInstance /\ tampered # {}) =>
    \E f \in failures : \E t \in tampered : References(f, t[2])

\* C4 (as claimed): in every accepted table each row with the recurrence
\* selector enabled satisfies both b = d + 1 and c = a * b.
C4_BothRecurrencesEnforced ==
  (pc = "verified" /\ failures = {}) => \A r \in q0 : RecurrenceAt(r)

\* C5: for n >= 2, after the honest assignment verify accepts when instance
\* row 1 equals the returned cell and reports a copy-constraint failure on
\* that cell when it holds any other value.
C5_OutputBoundToInstance ==
  (pc = "verified" /\ n >= 2) =>
    /\ (instance[1] = col_a[output] => failures = {})
    /\ (instance[1] # col_a[output] =>
          [kind |-> "Permutation", row |-> output, at |-> 1] \in failures)

C5_Witness ==
  /\ pc = "verified"
  /\ n >= 2
  /\ instance[1] # col_a[output]
  /\ failures # {}

\* C6 (as claimed): seed 6 and 4 rows give the running products 6, 30, 120, 120.
C6_ProductStabilizes ==
  (Synthesized /\ n = 4 /\ instance[0] = 6) =>
    col_a = (0 :> 6) @@ (1 :> 30) @@ (2 :> 120) @@ (3 :> 120)

\* C6 (amended): seed 6 and 4 rows give the running products 6, 30, 120, 360
\* beside the countdown 5, 4, 3, 2.
C6_ProductSequence ==
  (Synthesized /\ n = 4 /\ instance[0] = 6) =>
    /\ col_a = (0 :> 6) @@ (1 :> 30) @@ (2 :> 120) @@ (3 :> 360)
    /\ col_b = (0 :> 5) @@ (1 :> 4) @@ (2 :> 3) @@ (3 :> 2)

C6_Witness ==
  /\ pc = "synthesized"
  /\ n = 4
  /\ instance[0] = 6
  /\ col_a[3] = 360

\* C7 (as claimed): calculate fails for nrows < 2 before any cell is
\* assigned or returned.
C7_SmallRowCountRejected ==
  (n < 2 /\ pc \notin {"start", "ready", "panicked"}) =>
    /\ output = -1
    /\ col_a = <<>>
    /\ col_b = <<>>

\* C8 (as claimed): factorial(n) returns n! for every input, without
\* underflow or wrap-around.
C8_HelperComputesFactorial ==
  (helper.outcome # "none") =>
    /\ helper.outcome = "exact"
    /\ helper.value = FactMod(helper.arg)

\* C9 (as claimed): after calculate(nrows) row r is enabled exactly when
\* r + 1 <= nrows - 1, and no enabled row queries an unassigned cell.
C9_SelectorOnExactRows ==
  Synthesized =>
    /\ q0 = {r \in Rows : r + 1 <= n - 1}
    /\ \A r \in q0 : \A c \in QueriedCells(r) : IsAssigned(c[1], c[2])

\* C10 (as claimed): whatever the advice cells hold, a table for nrows = n
\* is accepted against [n, y] only if y = n!, and then b at row 0 is the
\* seed minus one.
C10_OnlyFactorialAccepted ==
  (pc = "verified" /\ failures = {} /\ n >= 2) =>
    /\ instance[1] = FactMod(n)
    /\ col_b[0] = FSub(instance[0], FOne)

====
